---- MODULE Spec2Model ----
(***************************************************************************)
(* Wallet authentication (Sign-In With Ethereum) and the multi-tenant      *)
(* wallet-connection lifecycle of the FinSIght platform:                   *)
(*   core/wallet_auth.py     nonce, challenge message, signature, JWT      *)
(*   core/wallet_service.py  nonce store and wallet-connection registry    *)
(*   core/wallet_api.py      the HTTP endpoints around the service         *)
(*                                                                         *)
(* Time is counted in milliseconds (the resolution of the wallet id,       *)
(* wallet_service.py:191).  Every call reads the clock at one instant;     *)
(* the clock moves only between calls (action Tick).                       *)
(***************************************************************************)
EXTENDS Integers, Sequences, FiniteSets, TLC

(***************************************************************************)
(* Bounds of the model                                                     *)
(***************************************************************************)
\* nonces the generator hands out in one behaviour
MaxNonces == 2
\* the clock readings of one behaviour: 0..MaxMs ms after the start, and the
\* first ms at which a nonce issued at the start has expired
MaxMs == 0

(***************************************************************************)
(* Program constants                                                       *)
(***************************************************************************)
NONCE_EXPIRY_MINUTES == 5
JWT_EXPIRY_HOURS == 24

NonceTTL == NONCE_EXPIRY_MINUTES * 60 * 1000
JwtTTL == JWT_EXPIRY_HOURS * 3600 * 1000

None == "None"

(***************************************************************************)
(* Input domains                                                           *)
(***************************************************************************)
Tenants == {"t1", "t2"}
UserIds == {"u1", "u2"}
\* the (tenant, user) pairs requests arrive for: the two users, and user u2
\* asked for under tenant t1, where it does not exist
Callers == {<<"t1", "u1">>, <<"t2", "u2">>, <<"t1", "u2">>}

\* the users table: user u1 lives in tenant t1, user u2 in tenant t2
UserDB == {[id |-> "u1", tenant_id |-> "t1"], [id |-> "u2", tenant_id |-> "t2"]}

\* An address is <<value, spelling>>: the 20-byte value and the letter case
\* it is written in.  "zz" stands for a string that is no address.
HexValues == {"aa", "bb"}
Spellings == {"lower", "checksum"}
RawAddresses == (HexValues \X Spellings) \cup {<<"zz", "lower">>}
Invalid == <<"invalid", "invalid">>

\* private keys: one per address value
Keys == HexValues

\* chain_id, wallet_type and label of a /verify request: the defaults of
\* VerifySignatureRequest, and two requests that set them
DefaultProfile == [chain_id |-> 1, wallet_type |-> "metamask", label |-> None]
Profiles ==
    { DefaultProfile,
      [chain_id |-> 1,   wallet_type |-> "coinbase", label |-> "Cold"],
      [chain_id |-> 137, wallet_type |-> "coinbase", label |-> ""] }

(***************************************************************************)
(* core/wallet_auth.py: pure functions                                     *)
(***************************************************************************)
\* Web3.to_checksum_address: keeps the value, rewrites the letter case
to_checksum_address(a) ==
    IF a[1] \in HexValues THEN <<a[1], "checksum">> ELSE Invalid

\* alternative: the address is used as the client wrote it
as_written(a) == a

\* checksum_address raises ValueError on a malformed address
checksum_address(a) == to_checksum_address(a)

\* str.lower()
lower(a) == <<a[1], "lower">>

\* the SIWE message: domain, URI, version and chain line are fixed text
create_siwe_message(address, nonce, issued_at) ==
    [address |-> address, nonce |-> nonce, issued_at |-> issued_at]

\* WalletAuthService.generate_nonce; `fresh` is secrets.token_urlsafe(32)
generate_nonce(a, fresh, clock) ==
    LET c == to_checksum_address(a)
    IN  [wallet_address |-> c,
         nonce          |-> fresh,
         expires_at     |-> clock + NonceTTL,
         message        |-> create_siwe_message(c, fresh, clock)]

\* what a wallet holding key k produces for message m
Sign(k, m) == [signer |-> k, msg |-> m]
Malformed == [signer |-> "none", msg |-> "none"]

\* Account.recover_message: the signer's address when the signature was made
\* over this very message, an unrelated address otherwise
recover_message(m, sig) ==
    IF sig.msg = m THEN <<sig.signer, "checksum">> ELSE <<"other", "checksum">>

\* alternative: any signature that decodes is accepted
any_signer(wallet_address, signature, message) ==
    signature # [signer |-> "none", msg |-> "none"]

\* WalletAuthService.verify_signature (its nonce argument is not used);
\* a signature that cannot be decoded raises inside the try and gives False
verify_signature(wallet_address, signature, message) ==
    IF signature = Malformed
    THEN FALSE
    ELSE lower(recover_message(message, signature))
            = lower(to_checksum_address(wallet_address))

(***************************************************************************)
(* State                                                                   *)
(***************************************************************************)
VARIABLES
    now,            \* datetime.now(), in ms
    nonces,         \* table wallet_nonces (committed rows)
    nextNonce,      \* the next value secrets.token_urlsafe will return
    wallets,        \* table wallet_connections (committed rows)
    pendingClear,   \* ids whose is_primary = False is flushed, not committed,
                    \* in the long-lived session of a direct service caller
    consumed,       \* history: <<address, nonce>> of every successful verify
    lostPrimary,    \* history: <<tenant, user, cause>> of every user whose
                    \* primary flag was taken away and not given back since
    issued,         \* history: the credentials handed out, kept where a
                    \* claim is about them
    spelled,        \* history: the address as the client wrote it, of nonce
                    \* requests and successful verifies, kept where a claim
                    \* is about it
    query,          \* FintechAgentPlatform.query_agent: the request being
                    \* served, its retry_count and what it has done so far
    monitor,        \* FintechAgentPlatform.monitoring_active and the
                    \* background tasks running start_monitoring
    sched,          \* TaskScheduler: its tasks, the jobs registered in the
                    \* scheduler and the runs in progress in its workers
    last,           \* the last call: its arguments and what it returned
    procs           \* the requests served concurrently, each at its own
                    \* place in verify_and_connect_wallet with its own locals

vars ==
    <<now, nonces, nextNonce, wallets, pendingClear, consumed, lostPrimary,
      issued, spelled, query, monitor, sched, last, procs>>

\* what the calls on nonces and connections leave alone
\* the state of fintech_platform and of the scheduler
platform == <<query, monitor, sched>>

aside == <<issued, spelled, platform>>

\* the state of the wallet subsystem
walletVars ==
    <<now, nonces, nextNonce, wallets, pendingClear, consumed, lostPrimary,
      issued, spelled, last, procs>>

Ids(W) == {w.id : w \in W}

\* what a query of the session sees: the committed rows W plus its flushed
\* updates P
View(W, P) ==
    {IF w.id \in P THEN [w EXCEPT !.is_primary = FALSE] ELSE w : w \in W}

SessionView == View(wallets, pendingClear)

\* rows of one (tenant, user): filter_by(tenant_id=, user_id=)
OfUser(W, t, u) == {w \in W : w.tenant_id = t /\ w.user_id = u}

Returned(op, t, u, c, n, wid, err, ok, ret, tok) ==
    [op |-> op, tenant |-> t, user |-> u, addr |-> c,
     nonce |-> n, wid |-> wid, err |-> err, ok |-> ok, ret |-> ret,
     token |-> tok, sig |-> Malformed, profile |-> DefaultProfile]

\* no call is in progress: the previous one has returned to its caller
Idle ==
    [op |-> "idle", tenant |-> "", user |-> "", addr |-> Invalid, nonce |-> 0,
     wid |-> 0, err |-> "", ok |-> FALSE, ret |-> <<>>, token |-> <<>>,
     sig |-> Malformed, profile |-> DefaultProfile]

\* the requests that can be in progress at the same time
Requests == {"r1", "r2"}

\* a request that has not arrived yet
Waiting ==
    [pc |-> "waiting", tenant |-> "", user |-> "", addr |-> Invalid,
     nonce |-> 0, sig |-> Malformed, row |-> {}, found |-> {}, seen |-> {},
     ok |-> FALSE, err |-> "", overlapped |-> FALSE, wid |-> 0,
     cleared |-> {}]

\* FintechAgentPlatform.__init__: no monitoring, no request made yet
NoMonitor ==
    [monitoring_active |-> FALSE, loops |-> <<>>, requests |-> 0,
     stopped |-> FALSE, answer |-> ""]

\* the tasks a caller can schedule: the id is built from the kind, the
\* user and the time
Tasks ==
    {[task_id |-> "portfolio_analysis_u1_0", user_id |-> "u1",
      task_type |-> "portfolio_analysis"],
     [task_id |-> "portfolio_analysis_u9_0", user_id |-> "u9",
      task_type |-> "portfolio_analysis"],
     [task_id |-> "recurring_analysis_u1_0", user_id |-> "u1",
      task_type |-> "recurring_analysis"]}

TaskIds == {t.task_id : t \in Tasks}

\* TaskScheduler.__init__: no task, no job, no run
NoSched ==
    [tasks |-> [i \in TaskIds |-> "none"], jobs |-> {},
     run |-> [i \in TaskIds |-> "idle"], cancelled |-> {},
     fires |-> 0, calls |-> 0, returned |-> FALSE, asked |-> ""]

\* no query has been made yet
NoQuery ==
    [pc |-> "idle", user |-> "", stream |-> FALSE, retry_count |-> 0,
     calls |-> 0, waits |-> <<>>, errors |-> <<>>, result |-> "", asked |-> 0]

Init ==
    /\ procs = [q \in Requests |-> Waiting]
    /\ now = 0
    /\ nonces = {}
    /\ nextNonce = 1
    /\ wallets = {}
    /\ pendingClear = {}
    /\ consumed = {}
    /\ lostPrimary = {}
    /\ issued = {}
    /\ spelled = {}
    /\ query = NoQuery
    /\ monitor = NoMonitor
    /\ sched = NoSched
    /\ last = Idle

\* A request through the HTTP API runs on a session of its own, closed in the
\* endpoint's finally: it starts with nothing pending and whatever it leaves
\* uncommitted is rolled back.  Requests are taken while no other session
\* holds an open write transaction.
SessionOpen(api) == api => pendingClear = {}

Instants == (0..MaxMs) \cup {NonceTTL + 1}

\* the clock moves between two calls
Tick ==
    /\ last = Idle
    /\ \E i \in Instants :
          /\ i > now
          /\ now' = i
    /\ UNCHANGED <<nonces, nextNonce, wallets, pendingClear, consumed,
                   lostPrimary, last, procs, aside>>

(***************************************************************************)
(* WalletService.create_or_get_nonce / POST /api/wallet/nonce              *)
(***************************************************************************)
\* alternative: only a used row is replaced
only_used(r) == r.used

\* existing_nonce.used or existing_nonce.expires_at < datetime.now()
stale(r) == r.used \/ r.expires_at < now

\* the WalletNonce handed back for a stored row
AsWalletNonce(r) ==
    [wallet_address |-> r.wallet_address, nonce |-> r.nonce,
     expires_at |-> r.expires_at, message |-> r.message]

NonceRow(d) ==
    [wallet_address |-> d.wallet_address, nonce |-> d.nonce,
     message |-> d.message, expires_at |-> d.expires_at, used |-> FALSE]

\* every session.commit() publishes what the session has flushed so far
Commit(W) ==
    /\ wallets' = W
    /\ pendingClear' = {}

\* lines 50-64: a new challenge replaces the row `gone` (a set: empty when no
\* row was there)
IssueNonce(c, gone) ==
    LET d == generate_nonce(c, nextNonce, now)
    IN  /\ nextNonce <= MaxNonces
        /\ nonces' = (nonces \ gone) \cup {NonceRow(d)}
        /\ nextNonce' = nextNonce + 1
        /\ Commit(SessionView)
        /\ last' = Returned("nonce", "", "", c, d.nonce, 0, "", TRUE, <<d>>, <<>>)
        /\ UNCHANGED <<now, consumed, lostPrimary>>

\* alternative: the lookup finds nothing
no_nonce(c) == {}

\* filter_by(wallet_address=checksummed)
stored_nonce(c) == {r \in nonces : r.wallet_address = c}

CreateOrGetNonce(raw) ==
    LET c == checksum_address(raw)
        found == stored_nonce(c)
    IN  IF c = Invalid
           THEN /\ last' = Returned("nonce", "", "", c, 0, 0,
                                    "Invalid Ethereum address", FALSE, <<>>, <<>>)
                /\ UNCHANGED <<now, nonces, nextNonce, wallets, pendingClear, consumed, lostPrimary>>
           ELSE IF found = {}
           THEN IssueNonce(c, {})
           ELSE \E e \in found :
                  IF stale(e)
                  THEN IssueNonce(c, {e})
                  ELSE /\ last' = Returned("nonce", "", "", c, e.nonce, 0, "",
                                           TRUE, <<AsWalletNonce(e)>>, <<>>)
                       /\ UNCHANGED <<now, nonces, nextNonce, wallets,
                                      pendingClear, consumed, lostPrimary>>

(***************************************************************************)
(* WalletService.verify_and_connect_wallet / POST /api/wallet/verify       *)
(***************************************************************************)
\* alternative: the user lookup of lines 107-113 left out
any_user(t, u) == TRUE

\* filter_by(id=user_id, tenant_id=tenant_id).first()
user_exists(t, u) == \E x \in UserDB : x.id = u /\ x.tenant_id = t

\* alternative: the record is looked up by its nonce alone
by_nonce_only(c, n) == {r \in nonces : r.nonce = n}

\* filter_by(wallet_address=checksummed, nonce=nonce)
nonce_rows(c, n) == {r \in nonces : r.wallet_address = c /\ r.nonce = n}

\* alternative: line 145 left out
keep_unused(r) == r

\* db_nonce.used = True
mark_used(r) == [r EXCEPT !.used = TRUE]

\* alternative: the message is built again from the address and the nonce
\* presented, for the time of issue
rebuilt_message(r) ==
    create_siwe_message(lower(r.wallet_address), r.nonce,
                        r.expires_at - NonceTTL)

\* message = db_nonce.message
stored_message(r) == r.message

\* alternative: a challenge is good for the first user of the first tenant
\* only
bound_to_user(t, u, c, sig, n) ==
    IF c = Invalid THEN "Invalid Ethereum address"
    ELSE IF ~user_exists(t, u) THEN "User not found"
    ELSE IF nonce_rows(c, n) = {} \/ <<t, u>> # <<"t1", "u1">>
         THEN "Nonce not found"
    ELSE LET r == CHOOSE r \in nonce_rows(c, n) : TRUE
         IN  IF r.used THEN "Nonce already used"
             ELSE IF r.expires_at < now THEN "Nonce expired"
             ELSE IF ~verify_signature(c, sig, r.message) THEN "Invalid signature"
             ELSE "ok"

\* the checks of verify_and_connect_wallet, in the order the code makes them:
\* the error raised, or "ok"
verify_checks(t, u, c, sig, n) ==
    IF c = Invalid THEN "Invalid Ethereum address"
    ELSE IF ~user_exists(t, u) THEN "User not found"
    ELSE IF nonce_rows(c, n) = {} THEN "Nonce not found"
    ELSE LET r == CHOOSE r \in nonce_rows(c, n) : TRUE
         IN  IF r.used THEN "Nonce already used"
             ELSE IF r.expires_at < now THEN "Nonce expired"
             ELSE IF ~verify_signature(c, sig, stored_message(r)) THEN "Invalid signature"
             ELSE "ok"

\* alternative: the chain is not part of what identifies a connection
any_chain(W, t, u, c, chain) == {w \in OfUser(W, t, u) : w.wallet_address = c}

\* filter_by(tenant_id=, user_id=, wallet_address=, chain_id=)
existing_connection(W, t, u, c, chain) ==
    {w \in OfUser(W, t, u) : w.wallet_address = c /\ w.chain_id = chain}

\* alternative: a new connection is never made primary
never_first(W, t, u) == FALSE

\* alternative: every new connection is made primary
always_first(W, t, u) == TRUE

\* is_primary = user_wallets == 0
first_wallet(W, t, u) == Cardinality(OfUser(W, t, u)) = 0

\* alternative: a label is taken whenever the request carries one
present(label) == label # None

\* `if label:` and `label or ...`: None and the empty string are no label
given(label) == label \notin {None, ""}

\* f"{wallet_type.title()} Wallet"
default_label(wt) ==
    IF wt = "metamask" THEN "Metamask Wallet" ELSE "Coinbase Wallet"

\* the row of a new connection; its id is the clock reading in ms
new_wallet(W, t, u, c, p) ==
    [id |-> now, tenant_id |-> t, user_id |-> u, wallet_address |-> c,
     chain_id |-> p.chain_id, wallet_type |-> p.wallet_type,
     label |-> IF given(p.label) THEN p.label
               ELSE default_label(p.wallet_type),
     is_primary |-> first_wallet(W, t, u),
     verified_at |-> now, last_used_at |-> now, created_at |-> now]

\* the update of a connection that exists already
reverified(e, p) ==
    [e EXCEPT !.verified_at = now, !.last_used_at = now,
              !.wallet_type = p.wallet_type,
              !.label = IF given(p.label) THEN p.label ELSE @]

\* jwt.encode(payload, key): the token carries the payload and can be
\* checked against the key it was signed with
jwt_encode(payload, key) == [payload |-> payload, key |-> key]

\* the token generate_wallet_jwt makes for connection w when the clock reads
\* `clock`
wallet_jwt(w, clock) ==
    jwt_encode([tenant_id |-> w.tenant_id, user_id |-> w.user_id,
                wallet_id |-> w.id, wallet_address |-> w.wallet_address,
                chain_id |-> w.chain_id, exp |-> clock + JwtTTL,
                iat |-> clock, type |-> "wallet"],
               "JWT_SECRET")

\* WalletAuthService.generate_wallet_jwt, signed with the server secret
generate_wallet_jwt(w) == wallet_jwt(w, now)

\* a string that is not a JWT
MalformedToken ==
    [payload |-> [tenant_id |-> "", user_id |-> "", wallet_id |-> 0,
                  wallet_address |-> Invalid, chain_id |-> 0, exp |-> 0,
                  iat |-> 0, type |-> ""],
     key |-> "none"]

\* jwt.decode(token, JWT_SECRET, algorithms=["HS256"]): the exception it
\* raises, or "payload"
jwt_decode(token) ==
    IF token = MalformedToken THEN "DecodeError"
    ELSE IF token.key # "JWT_SECRET" THEN "InvalidSignatureError"
    ELSE IF token.payload.exp <= now THEN "ExpiredSignatureError"
    ELSE "payload"

\* the exceptions the two except clauses catch: ExpiredSignatureError and
\* the subclasses of InvalidTokenError
Caught == {"ExpiredSignatureError", "DecodeError", "InvalidSignatureError"}

\* alternative: a token is good only while the connection it names is stored
revocable(token) ==
    LET d == jwt_decode(token)
    IN  IF /\ d = "payload"
           /\ token.payload.type = "wallet"
           /\ \E w \in wallets : w.id = token.payload.wallet_id
        THEN [value |-> <<token.payload>>, raised |-> ""]
        ELSE [value |-> <<>>, raised |-> ""]

\* alternative: the type of the token is not looked at
skip_type_check(token) ==
    LET d == jwt_decode(token)
    IN  IF d = "payload" THEN [value |-> <<token.payload>>, raised |-> ""]
        ELSE IF d \in Caught THEN [value |-> <<>>, raised |-> ""]
        ELSE [value |-> <<>>, raised |-> d]

\* WalletAuthService.verify_wallet_jwt: the payload, None (an empty
\* sequence), or the exception that escapes
verify_wallet_jwt(token) ==
    LET d == jwt_decode(token)
    IN  IF d = "payload"
        THEN IF token.payload.type # "wallet"
             THEN [value |-> <<>>, raised |-> ""]
             ELSE [value |-> <<token.payload>>, raised |-> ""]
        ELSE IF d \in Caught THEN [value |-> <<>>, raised |-> ""]
        ELSE [value |-> <<>>, raised |-> d]

\* alternative: the row is written before the signature is looked at
spend_on_presentation(outcome, r) ==
    IF outcome \in {"ok", "Invalid signature"} THEN [r EXCEPT !.used = TRUE]
    ELSE r

\* lines 141-146: the row is written only once the signature has passed
spend(outcome, r) == IF outcome = "ok" THEN mark_used(r) ELSE r

\* table wallet_nonces after the checks of a verify that presented (c, n)
nonces_after(outcome, c, n) ==
    {IF r \in nonce_rows(c, n) THEN spend(outcome, r) ELSE r : r \in nonces}

\* the users whose primary flag is missing, by what took it away
Scope(t, u) == {<<t, u, "disconnect">>, <<t, u, "set_primary">>}

\* what the call hands back on success: the API adds the credential
\* and answers 500 when generate_wallet_jwt raises (`enc` false)
Connected(api, t, u, c, sig, n, w, p, enc) ==
    last' = IF api /\ ~enc
            THEN [Returned("verify", t, u, c, n, 0, "Failed to connect wallet",
                           FALSE, <<>>, <<>>)
                    EXCEPT !.sig = sig, !.profile = p]
            ELSE [Returned("verify", t, u, c, n, w.id, "", TRUE, <<w>>,
                           IF api THEN <<generate_wallet_jwt(w)>> ELSE <<>>)
                    EXCEPT !.sig = sig, !.profile = p]

VerifyAndConnect(api, t, u, raw, sig, n, p, enc) ==
    LET c == checksum_address(raw)
        outcome == verify_checks(t, u, c, sig, n)
        S == SessionView
    IN  /\ SessionOpen(api)
        /\ nonces' = nonces_after(outcome, c, n)
        /\ UNCHANGED <<now, nextNonce>>
        /\ IF outcome # "ok"
           THEN /\ last' = [Returned("verify", t, u, c, n, 0, outcome, FALSE,
                                     <<>>, <<>>) EXCEPT !.sig = sig]
                /\ UNCHANGED <<wallets, pendingClear, consumed, lostPrimary>>
           ELSE LET found == existing_connection(S, t, u, c, p.chain_id)
                IN  IF found # {}
                    THEN \E e \in found :
                           /\ Commit((S \ {e}) \cup {reverified(e, p)})
                           /\ consumed' = consumed \cup {<<c, n>>}
                           /\ Connected(api, t, u, c, sig, n, reverified(e, p), p, enc)
                           /\ UNCHANGED lostPrimary
                    ELSE LET w == new_wallet(S, t, u, c, p)
                         IN  IF w.id \in Ids(S)
                             THEN \* the INSERT violates the primary key: the
                                  \* commit of line 208 raises, line 146 stays
                                  /\ Commit(S)
                                  /\ last' = [Returned("verify", t, u, c, n, 0,
                                                "IntegrityError", FALSE, <<>>,
                                                <<>>) EXCEPT !.sig = sig]
                                  /\ UNCHANGED <<consumed, lostPrimary>>
                             ELSE /\ Commit(S \cup {w})
                                  /\ consumed' = consumed \cup {<<c, n>>}
                                  /\ Connected(api, t, u, c, sig, n, w, p, enc)
                                  /\ lostPrimary' =
                                        IF w.is_primary
                                        THEN lostPrimary \ Scope(t, u)
                                        ELSE lostPrimary

(***************************************************************************)
(* WalletService.get_user_wallets / GET /api/wallet/connections            *)
(***************************************************************************)
\* alternative: order_by(created_at) alone
by_creation(a, b) == a.created_at <= b.created_at

\* order_by(is_primary.desc(), created_at): a before b
precedes(a, b) ==
    \/ a.is_primary /\ ~b.is_primary
    \/ a.is_primary = b.is_primary /\ a.created_at <= b.created_at

\* the orders the query may return the rows R in (ties are the database's)
listings(R) ==
    {s \in [1..Cardinality(R) -> R] :
        \A i, j \in 1..Cardinality(R) :
            i < j => s[i] # s[j] /\ precedes(s[i], s[j])}

GetUserWallets(t, u) ==
    /\ \E s \in listings(OfUser(SessionView, t, u)) :
          last' = Returned("list", t, u, Invalid, 0, 0, "", TRUE, s, <<>>)
    /\ UNCHANGED <<now, nonces, nextNonce, wallets, pendingClear, consumed, lostPrimary>>

(***************************************************************************)
(* WalletService.set_primary_wallet / POST /api/wallet/set-primary         *)
(***************************************************************************)
\* alternative: the UPDATE of lines 285-288 left out
keep_flags(W, t, u) == W

\* filter_by(tenant_id=, user_id=).update({"is_primary": False})
clear_primary(W, t, u) ==
    {IF w \in OfUser(W, t, u) THEN [w EXCEPT !.is_primary = FALSE] ELSE w :
        w \in W}

\* alternative: the wallet is looked up by its id alone
any_owner(W, t, u, wid) == {w \in W : w.id = wid}

\* filter_by(id=wallet_id, tenant_id=tenant_id, user_id=user_id).first()
find_wallet(W, t, u, wid) == {w \in OfUser(W, t, u) : w.id = wid}

\* alternative: the promoted row is stamped as used
promote_and_touch(w) == [w EXCEPT !.is_primary = TRUE, !.last_used_at = now]

\* wallet.is_primary = True
promote(w) == [w EXCEPT !.is_primary = TRUE]

SetPrimaryWallet(api, t, u, wid) ==
    LET S == SessionView
        cleared == clear_primary(S, t, u)
        target == find_wallet(cleared, t, u, wid)
    IN  /\ SessionOpen(api)
        /\ IF target = {}
           THEN \* return False: the UPDATE stays flushed in the session; the
                \* endpoint answers 404 and closes its session
                /\ pendingClear' =
                      IF api THEN {}
                      ELSE pendingClear \cup {w.id : w \in S \ cleared}
                /\ lostPrimary' =
                      IF api \/ S = cleared THEN lostPrimary
                      ELSE lostPrimary \cup {<<t, u, "set_primary">>}
                /\ last' = Returned("set_primary", t, u, Invalid, 0, wid,
                                    "", FALSE, <<>>, <<>>)
                /\ UNCHANGED <<now, nonces, nextNonce, wallets, consumed>>
           ELSE \E w \in target :
                  /\ Commit((cleared \ {w}) \cup {promote(w)})
                  /\ lostPrimary' = lostPrimary \ Scope(t, u)
                  /\ last' = Returned("set_primary", t, u, Invalid, 0, wid, "",
                                      TRUE, <<>>, <<>>)
                  /\ UNCHANGED <<now, nonces, nextNonce, consumed>>

(***************************************************************************)
(* WalletService.disconnect_wallet / DELETE /api/wallet/connections/{id}   *)
(***************************************************************************)
\* alternative: deleting the primary hands the flag to a remaining wallet
delete_and_promote(S, w) ==
    LET rest == OfUser(S, w.tenant_id, w.user_id) \ {w}
    IN  IF w.is_primary /\ rest # {}
        THEN LET heir == CHOOSE v \in rest : \A x \in rest : v.id <= x.id
             IN  ((S \ {w}) \ {heir}) \cup {promote(heir)}
        ELSE S \ {w}

\* session.delete(wallet)
delete(S, w) == S \ {w}

DisconnectWallet(t, u, wid) ==
    LET S == SessionView
        target == find_wallet(S, t, u, wid)
    IN  IF target = {}
        THEN /\ last' = Returned("disconnect", t, u, Invalid, 0, wid, "",
                                 FALSE, <<>>, <<>>)
             /\ UNCHANGED <<now, nonces, nextNonce, wallets, pendingClear,
                            consumed, lostPrimary>>
        ELSE \E w \in target :
               /\ Commit(delete(S, w))
               /\ lostPrimary' =
                     IF w.is_primary
                     THEN lostPrimary \cup {<<w.tenant_id, w.user_id, "disconnect">>}
                     ELSE lostPrimary
               /\ last' = Returned("disconnect", t, u, Invalid, 0, wid, "",
                                   TRUE, <<>>, <<>>)
               /\ UNCHANGED <<now, nonces, nextNonce, consumed>>

\* session.close() of the long-lived session: what it has not committed is
\* rolled back
SessionClose ==
    /\ last = Idle
    /\ pendingClear # {}
    /\ pendingClear' = {}
    /\ lostPrimary' =
          lostPrimary \ {<<w.tenant_id, w.user_id, "set_primary">> :
                            w \in {x \in wallets : x.id \in pendingClear}}
    /\ last' = Returned("close", "", "", Invalid, 0, 0, "", TRUE, <<>>, <<>>)
    /\ UNCHANGED <<now, nonces, nextNonce, wallets, consumed, procs, aside>>

(***************************************************************************)
(* The calls a client can make, one at a time                              *)
(***************************************************************************)
\* signatures a client can present: garbage, or any key over a stored message
Signatures == {Malformed} \cup {Sign(k, r.message) : k \in Keys, r \in nonces}

\* nonce values a client can present: 0 was never issued
NonceValues == 0..(nextNonce - 1)

\* wallet ids a client can name: -1 names no wallet
WalletIds == Ids(wallets) \cup {-1}

\* A failed verify reads neither the profile nor the route, and reads the
\* signature only when a row is stored for the pair presented: one
\* representative of each is enough where the call does not depend on it.
SignatureChoices(t, u, c, n) ==
    IF nonce_rows(c, n) = {} THEN {Malformed} ELSE Signatures

ProfileChoices(P, t, u, c, sig, n) ==
    IF verify_checks(t, u, c, sig, n) = "ok" THEN P ELSE {DefaultProfile}

RouteChoices(t, u, c, sig, n) ==
    IF verify_checks(t, u, c, sig, n) = "ok" THEN BOOLEAN ELSE {FALSE}

\* whether jwt.encode and WalletJWT(...) go through matters only to a
\* request through the API that has connected the wallet
IssueChoices(J, api, t, u, c, sig, n) ==
    IF api /\ verify_checks(t, u, c, sig, n) = "ok" THEN J ELSE {TRUE}

\* a verify request for the address written as `raw`
VerifyWith(raw, P, J) ==
    /\ last = Idle
    /\ UNCHANGED procs
    /\ \E tu \in Callers, n \in NonceValues :
        \E sig \in SignatureChoices(tu[1], tu[2], checksum_address(raw), n) :
         \E p \in ProfileChoices(P, tu[1], tu[2], checksum_address(raw), sig, n),
            api \in RouteChoices(tu[1], tu[2], checksum_address(raw), sig, n) :
          \E enc \in IssueChoices(J, api, tu[1], tu[2], checksum_address(raw),
                                  sig, n) :
             VerifyAndConnect(api, tu[1], tu[2], raw, sig, n, p, enc)

\* a verify request with one of the profiles P and one of the outcomes J of
\* issuing the credential
VerifyIssuing(P, J) == \E raw \in RawAddresses : VerifyWith(raw, P, J)

\* a verify request whose credential, if one is due, is issued
Verify(P) == VerifyIssuing(P, {TRUE}) /\ UNCHANGED aside

\* the caller takes the result; calls are made one at a time
Return ==
    /\ last # Idle
    /\ last' = Idle
    /\ UNCHANGED <<now, nonces, nextNonce, wallets, pendingClear, consumed,
                   lostPrimary, procs, aside>>

RequestNonce ==
    /\ last = Idle
    /\ UNCHANGED <<procs, aside>>
    /\ \E raw \in RawAddresses : CreateOrGetNonce(raw)

VerifyDefault == Verify({DefaultProfile})

ListWallets ==
    /\ last = Idle
    /\ UNCHANGED <<procs, aside>>
    /\ \E tu \in Callers : GetUserWallets(tu[1], tu[2])

SetPrimary ==
    /\ last = Idle
    /\ UNCHANGED <<procs, aside>>
    /\ \E api \in BOOLEAN, tu \in Callers, wid \in WalletIds :
          SetPrimaryWallet(api, tu[1], tu[2], wid)

Disconnect ==
    /\ last = Idle
    /\ UNCHANGED <<procs, aside>>
    /\ \E tu \in Callers, wid \in WalletIds :
          DisconnectWallet(tu[1], tu[2], wid)

VerifyProfiles == Verify(Profiles)

\* the tokens somebody can present: the credential of a connection as
\* issued at an earlier reading of the clock, the same claims as another
\* kind of credential of the platform, either one signed with another key,
\* and garbage
Presentable ==
    {MalformedToken} \cup
    { jwt_encode([wallet_jwt(w, i).payload EXCEPT !.type = ty], k) :
         w \in wallets, i \in {j \in Instants : j <= now},
         ty \in {"wallet", "access"}, k \in {"JWT_SECRET", "forged"} }

\* a call of verify_wallet_jwt with one of the tokens T
Present(T) ==
    /\ last = Idle
    /\ \E tok \in T :
          LET v == verify_wallet_jwt(tok)
          IN  last' = Returned("auth", tok.payload.tenant_id,
                               tok.payload.user_id, tok.payload.wallet_address,
                               0, tok.payload.wallet_id, v.raised,
                               v.value # <<>>, v.value, <<tok>>)
    /\ UNCHANGED <<now, nonces, nextNonce, wallets, pendingClear, consumed,
                   lostPrimary, procs, aside>>

PresentToken == Present(Presentable)

\* a credential the API has handed out comes back
PresentIssued == Present(issued)

\* POST /api/wallet/verify, the credential in the response kept
ConnectRecorded ==
    /\ VerifyIssuing({DefaultProfile}, {TRUE})
    /\ issued' = issued \cup {last'.token[i] : i \in DOMAIN last'.token}
    /\ UNCHANGED <<spelled, platform>>

\* what a call leaves in `spelled`: a nonce request when it is the one the
\* challenge is made for, a verify when it succeeds
Spelt(op, raw) ==
    IF last'.ok /\ nonces' # nonces
    THEN spelled \cup {[op |-> op, raw |-> raw, nonce |-> last'.nonce,
                        tenant |-> last'.tenant, user |-> last'.user]}
    ELSE spelled

\* POST /api/wallet/nonce, the spelling of the address kept
RequestSpelled ==
    /\ last = Idle
    /\ UNCHANGED <<procs, issued, platform>>
    /\ \E raw \in RawAddresses :
          /\ CreateOrGetNonce(raw)
          /\ spelled' = Spelt("nonce", raw)

\* POST /api/wallet/verify, the spelling of the address kept
ConnectSpelled ==
    /\ UNCHANGED <<issued, platform>>
    /\ \E raw \in RawAddresses :
          /\ VerifyWith(raw, {DefaultProfile}, {TRUE})
          /\ spelled' = Spelt("verify", raw)

\* challenges and connections under any spelling of an address
NextSpelling ==
    \/ RequestSpelled
    \/ ConnectSpelled
    \/ Return

\* the instant after the expiry of a credential issued at 0
LaterInstants == {JwtTTL + 1}

\* a day passes
Elapse ==
    /\ last = Idle
    /\ \E i \in LaterInstants :
          /\ i > now
          /\ now' = i
    /\ UNCHANGED <<nonces, nextNonce, wallets, pendingClear, consumed,
                   lostPrimary, last, procs, aside>>

\* connecting wallets and presenting credentials
NextJwt ==
    \/ Tick
    \/ Elapse
    \/ RequestNonce
    \/ VerifyDefault
    \/ PresentToken
    \/ Return

\* PUT /api/wallet/primary
SwitchPrimary ==
    /\ last = Idle
    /\ UNCHANGED <<procs, aside>>
    /\ \E tu \in Callers, wid \in WalletIds :
          SetPrimaryWallet(TRUE, tu[1], tu[2], wid)

\* credentials in use while their wallets are re-verified, switched and
\* disconnected
NextRevoke ==
    \/ Elapse
    \/ RequestNonce
    \/ ConnectRecorded
    \/ SwitchPrimary
    \/ Disconnect
    \/ PresentIssued
    \/ Return

VerifyOrFail == VerifyIssuing({DefaultProfile}, BOOLEAN) /\ UNCHANGED aside

\* connecting and disconnecting when issuing the credential can raise
NextIssue ==
    \/ Tick
    \/ RequestNonce
    \/ VerifyOrFail
    \/ Disconnect
    \/ Return


\* connecting and disconnecting by a client that sets chain_id, wallet_type
\* and label
NextProfiles ==
    \/ Tick
    \/ RequestNonce
    \/ VerifyProfiles
    \/ Disconnect
    \/ Return

Next ==
    \/ Tick
    \/ RequestNonce
    \/ VerifyDefault
    \/ ListWallets
    \/ SetPrimary
    \/ Disconnect
    \/ SessionClose
    \/ Return

Spec == Init /\ [][Next]_vars

SpecProfiles == Init /\ [][NextProfiles]_vars

SpecIssue == Init /\ [][NextIssue]_vars

SpecJwt == Init /\ [][NextJwt]_vars

SpecRevoke == Init /\ [][NextRevoke]_vars

SpecSpelling == Init /\ [][NextSpelling]_vars

(***************************************************************************)
(* verify_and_connect_wallet served for several requests at once.  Each    *)
(* request runs on a session of its own; a step is one round trip to the   *)
(* database (a query, or a commit with the writes it flushes), and a query *)
(* sees what has been committed.                                           *)
(***************************************************************************)
InProgress(q) == procs[q].pc \notin {"waiting", "done"}

Others(q) == Requests \ {q}

\* the users that exist, as (tenant, user)
Members == {<<x.tenant_id, x.id>> : x \in UserDB}

\* the request arrives: POST /api/wallet/verify with its body: a challenge
\* that was issued, for its address, with a signature.  The requests are
\* named in the order they arrive in.
Arrive(q) ==
    /\ procs[q].pc = "waiting"
    /\ q = "r2" => procs["r1"].pc # "waiting"
    /\ \E tu \in Members, d \in nonces, k \in Keys :
          procs' =
            [x \in Requests |->
               IF x = q
               THEN [Waiting EXCEPT
                        !.pc = "checks", !.tenant = tu[1], !.user = tu[2],
                        !.addr = d.wallet_address, !.nonce = d.nonce,
                        !.sig = Sign(k, d.message),
                        !.overlapped = \E y \in Others(q) : InProgress(y)]
               ELSE IF InProgress(x)
               THEN [procs[x] EXCEPT !.overlapped = TRUE]
               ELSE procs[x]]
    /\ UNCHANGED <<now, nonces, nextNonce, wallets, pendingClear, consumed,
                   lostPrimary, last>>

Finished(q, ok, err) ==
    procs' = [procs EXCEPT ![q].pc = "done", ![q].ok = ok, ![q].err = err]

\* lines 104-142: the user and nonce queries and the checks on what they
\* returned; the row read stays in the session
Checks(q) ==
    LET r == procs[q]
        outcome == verify_checks(r.tenant, r.user, r.addr, r.sig, r.nonce)
    IN  /\ r.pc = "checks"
        /\ IF outcome # "ok"
           THEN Finished(q, FALSE, outcome)
           ELSE procs' = [procs EXCEPT ![q].pc = "mark",
                                       ![q].row = nonce_rows(r.addr, r.nonce)]
        /\ UNCHANGED <<now, nonces, nextNonce, wallets, pendingClear, consumed,
                       lostPrimary, last>>

\* lines 145-146: UPDATE wallet_nonces SET used = 1 for the row read, and
\* commit; the UPDATE of a row deleted meanwhile matches nothing and raises
MarkUsed(q) ==
    LET r == procs[q]
        stored == nonce_rows(r.addr, r.nonce)
    IN  /\ r.pc = "mark"
        /\ IF stored = {}
           THEN /\ Finished(q, FALSE, "StaleDataError")
                /\ UNCHANGED nonces
           ELSE /\ nonces' = (nonces \ stored) \cup {mark_used(x) : x \in stored}
                /\ procs' = [procs EXCEPT ![q].pc = "lookup"]
        /\ UNCHANGED <<now, nextNonce, wallets, pendingClear, consumed,
                       lostPrimary, last>>

\* lines 149-154: is the wallet connected already?
Lookup(q) ==
    LET r == procs[q]
        found == existing_connection(wallets, r.tenant, r.user, r.addr,
                                     DefaultProfile.chain_id)
    IN  /\ r.pc = "lookup"
        /\ procs' = [procs EXCEPT ![q].found = found,
                                  ![q].pc = IF found # {} THEN "update"
                                            ELSE "count"]
        /\ UNCHANGED <<now, nonces, nextNonce, wallets, pendingClear, consumed,
                       lostPrimary, last>>

\* lines 156-180: UPDATE of the connection found, and commit
Update(q) ==
    LET r == procs[q]
        stored == {w \in wallets : w.id \in Ids(r.found)}
    IN  /\ r.pc = "update"
        /\ IF stored = {}
           THEN /\ Finished(q, FALSE, "StaleDataError")
                /\ UNCHANGED wallets
           ELSE /\ wallets' = (wallets \ stored)
                                 \cup {reverified(w, DefaultProfile) : w \in stored}
                /\ Finished(q, TRUE, "")
        /\ UNCHANGED <<now, nonces, nextNonce, pendingClear, consumed,
                       lostPrimary, last>>

\* lines 184-187: the count of the user's wallets
Count(q) ==
    LET r == procs[q]
    IN  /\ r.pc = "count"
        /\ procs' = [procs EXCEPT ![q].seen = OfUser(wallets, r.tenant, r.user),
                                  ![q].pc = "insert"]
        /\ UNCHANGED <<now, nonces, nextNonce, wallets, pendingClear, consumed,
                       lostPrimary, last>>

\* the table refuses a second row with the same id, or the same (tenant,
\* user, address, chain)
insert_conflicts(W, w) ==
    \E v \in W :
        \/ v.id = w.id
        \/ /\ v.tenant_id = w.tenant_id
           /\ v.user_id = w.user_id
           /\ v.wallet_address = w.wallet_address
           /\ v.chain_id = w.chain_id

\* lines 189-208: INSERT of the new connection, primary when the count read
\* was 0, and commit
Insert(q) ==
    LET r == procs[q]
        w == new_wallet(r.seen, r.tenant, r.user, r.addr, DefaultProfile)
    IN  /\ r.pc = "insert"
        /\ IF insert_conflicts(wallets, w)
           THEN /\ Finished(q, FALSE, "IntegrityError")
                /\ UNCHANGED wallets
           ELSE /\ wallets' = wallets \cup {w}
                /\ Finished(q, TRUE, "")
        /\ UNCHANGED <<now, nonces, nextNonce, pendingClear, consumed,
                       lostPrimary, last>>

Serve ==
    /\ UNCHANGED aside
    /\ \E q \in Requests :
        \/ Arrive(q)
        \/ Checks(q)
        \/ MarkUsed(q)
        \/ Lookup(q)
        \/ Update(q)
        \/ Count(q)
        \/ Insert(q)

NextConc ==
    \/ Tick
    \/ RequestNonce
    \/ Return
    \/ Serve

SpecConc == Init /\ [][NextConc]_vars

(***************************************************************************)
(* fintech_platform/fintech_os.py: FintechAgentPlatform.query_agent        *)
(***************************************************************************)
max_retries == 2

\* queries made, one after the other
MaxRequests == 2

\* self.agents: the users that have an agent
Agents == {"user_1"}

\* the user ids a query can name; ids are "user_" and a timestamp
QueryUsers == {"user_1", "user_2", "user_1429"}

\* A text is modelled by the set of the substrings the handler looks for that
\* occur in it (compared in lower case where the code lowers the text).
Substrings(user) == IF user = "user_1429" THEN {"429"} ELSE {}

\* what agent.run / agent.print_response can raise
AgentErrors ==
    { [kind |-> "quota", text |-> {"429", "RESOURCE_EXHAUSTED"}],
      [kind |-> "quota", text |-> {"quota"}],
      [kind |-> "auth",  text |-> {"API key"}],
      [kind |-> "auth",  text |-> {"authentication"}],
      [kind |-> "other", text |-> {}] }

\* ValueError(f"No agent found for user {user_id}")
no_agent(user) == [kind |-> "no_agent", text |-> Substrings(user)]

\* "429" in error_str or "RESOURCE_EXHAUSTED" in error_str or
\* "quota" in error_str.lower()
quota_text(e) == e.text \cap {"429", "RESOURCE_EXHAUSTED", "quota"} # {}

\* "API key" in error_str or "authentication" in error_str.lower()
auth_text(e) == e.text \cap {"API key", "authentication"} # {}

\* wait_time = 2 ** (retry_count + 1)
wait_time(retry_count) == 2 ^ (retry_count + 1)

\* POST /api/users/{user_id}/query
Ask ==
    /\ query.pc \in {"idle", "returned", "raised"}
    /\ query.asked < MaxRequests
    /\ \E user \in QueryUsers, stream \in BOOLEAN :
          query' = [NoQuery EXCEPT !.pc = "try", !.user = user,
                                   !.stream = stream,
                                   !.asked = query.asked + 1]
    /\ UNCHANGED <<walletVars, monitor, sched>>

\* the except clause, for the exception e caught after `calls` agent calls
Handle(e, calls) ==
    LET q == [query EXCEPT !.calls = calls, !.errors = Append(@, e)]
    IN  IF quota_text(e)
        THEN IF q.retry_count < max_retries
             THEN [q EXCEPT !.pc = "wait",
                            !.waits = Append(@, wait_time(q.retry_count))]
             ELSE [q EXCEPT !.pc = "raised", !.result = "high demand"]
        ELSE IF auth_text(e)
        THEN [q EXCEPT !.pc = "raised", !.result = "authentication failed"]
        ELSE [q EXCEPT !.pc = "raised", !.result = "Unable to process"]

\* the try block of one call of query_agent, and its except clause up to
\* time.sleep
Attempt ==
    /\ query.pc = "try"
    /\ IF query.user \notin Agents
       THEN query' = Handle(no_agent(query.user), query.calls)
       ELSE \/ query' = [query EXCEPT
                            !.pc = "returned", !.calls = @ + 1,
                            !.result = IF query.stream
                                       THEN "Streaming response..."
                                       ELSE "response.content"]
            \/ \E e \in AgentErrors : query' = Handle(e, query.calls + 1)
    /\ UNCHANGED <<walletVars, monitor, sched>>

\* time.sleep returns: query_agent(user_id, message, stream, retry_count + 1)
Retry ==
    /\ query.pc = "wait"
    /\ query' = [query EXCEPT !.pc = "try", !.retry_count = @ + 1]
    /\ UNCHANGED <<walletVars, monitor, sched>>

NextQuery ==
    \/ Ask
    \/ Attempt
    \/ Retry

\* agent.run and time.sleep return
SpecQuery ==
    Init /\ [][NextQuery]_vars /\ WF_vars(Attempt) /\ WF_vars(Retry)

(***************************************************************************)
(* Rule monitoring: the endpoints /api/monitoring/start and                *)
(* /api/monitoring/stop and the background task start_monitoring.  The     *)
(* endpoints and the task are coroutines of one event loop: each runs      *)
(* alone from one await to the next.  A task handed to BackgroundTasks     *)
(* starts after the response of its request has been sent.                 *)
(***************************************************************************)
\* the requests made to the two monitoring endpoints
MaxCalls == 4

\* the i-th background task is at place pc
At(m, i, pc) == IF i <= Len(m.loops) THEN m.loops[i] = pc ELSE FALSE

\* the background tasks inside `while self.monitoring_active`
Running(m) == {i \in 1..Len(m.loops) : m.loops[i] = "sleeping"}

\* start_monitoring_endpoint
StartRequest ==
    /\ monitor.requests < MaxCalls
    /\ monitor' =
          IF ~monitor.monitoring_active
          THEN [monitor EXCEPT !.loops = Append(@, "added"),
                               !.requests = @ + 1, !.stopped = FALSE,
                               !.answer = "Monitoring started"]
          ELSE [monitor EXCEPT !.requests = @ + 1, !.stopped = FALSE,
                               !.answer = "Monitoring already active"]
    /\ UNCHANGED <<walletVars, query, sched>>

\* stop_monitoring_endpoint, stop_monitoring
StopRequest ==
    /\ monitor.requests < MaxCalls
    /\ monitor' = [monitor EXCEPT !.monitoring_active = FALSE,
                                  !.requests = @ + 1, !.stopped = TRUE,
                                  !.answer = "Monitoring stopped"]
    /\ UNCHANGED <<walletVars, query, sched>>

\* start_monitoring up to its first await: the flag, the test of the
\* while, evaluate_rules
Begin(i) ==
    /\ At(monitor, i, "added")
    /\ monitor' = [monitor EXCEPT !.monitoring_active = TRUE,
                                  !.loops[i] = "sleeping"]
    /\ UNCHANGED <<walletVars, query, sched>>

\* asyncio.sleep returns: the test of the while, then evaluate_rules and
\* the next sleep, or the end of the task
Wake(i) ==
    /\ At(monitor, i, "sleeping")
    /\ monitor' = IF monitor.monitoring_active
                  THEN monitor
                  ELSE [monitor EXCEPT !.loops[i] = "exited"]
    /\ UNCHANGED <<walletVars, query, sched>>

LoopStarts == \E i \in 1..Len(monitor.loops) : Begin(i)

LoopWakes == \E i \in 1..Len(monitor.loops) : Wake(i)

NextMonitor ==
    \/ StartRequest
    \/ StopRequest
    \/ LoopStarts
    \/ LoopWakes

\* the event loop runs every task that is ready
SpecMonitor ==
    Init /\ [][NextMonitor]_vars
         /\ \A i \in 1..MaxCalls :
               WF_vars(Begin(i)) /\ WF_vars(Wake(i))

(***************************************************************************)
(* TaskScheduler.  The jobs run in the worker threads of the               *)
(* BackgroundScheduler, cancel_task in the thread of its caller: a run     *)
(* and a cancellation interleave between their statements.  A job with a   *)
(* DateTrigger has no next run time once it has fired and the scheduler    *)
(* takes it out of its job store; a job with an IntervalTrigger stays,     *)
(* and one run of it is in progress at a time (max_instances is 1).        *)
(***************************************************************************)
\* the times the scheduler fires a job
MaxFires == 3

\* the calls of cancel_task made from outside the scheduler
MaxCancels == 2

OneTime == {t.task_id : t \in {x \in Tasks : x.task_type = "portfolio_analysis"}}

Recurring == {t.task_id : t \in {x \in Tasks : x.task_type = "recurring_analysis"}}

user_of(id) == (CHOOSE t \in Tasks : t.task_id = id).user_id

\* session.query(UserDB).filter_by(id=task.user_id).first()
user_found(id) == \E x \in UserDB : x.id = user_of(id)

\* schedule_portfolio_analysis, schedule_recurring_analysis, for an id
\* not scheduled before
Schedule ==
    \E id \in TaskIds :
       /\ sched.tasks[id] = "none"
       /\ sched' = [sched EXCEPT !.tasks[id] = "pending",
                                 !.jobs = @ \cup {id}]
       /\ UNCHANGED <<walletVars, query, monitor>>

\* cancel_task: scheduler.remove_job raises JobLookupError for an id with
\* no job
cancel_task(sc, id) ==
    IF id \in sc.jobs
    THEN [sc EXCEPT !.jobs = @ \ {id},
                    !.tasks[id] = IF @ = "none" THEN @ ELSE "cancelled",
                    !.cancelled = @ \cup {id},
                    !.returned = TRUE, !.asked = id]
    ELSE [sc EXCEPT !.returned = FALSE, !.asked = id]

\* SchedulerTools.cancel_task, TaskScheduler.cancel_task
Cancel ==
    \E id \in TaskIds :
       /\ sched.calls < MaxCancels
       /\ sched' = [cancel_task(sched, id) EXCEPT !.calls = @ + 1]
       /\ UNCHANGED <<walletVars, query, monitor>>

\* the trigger of a job is due: the job is handed to a worker
Fire ==
    \E id \in sched.jobs :
       /\ sched.run[id] = "idle"
       /\ sched.fires < MaxFires
       /\ sched' = [sched EXCEPT
                       !.run[id] = "entered", !.fires = @ + 1,
                       !.jobs = IF id \in OneTime THEN @ \ {id} ELSE @]
       /\ UNCHANGED <<walletVars, query, monitor>>

\* _run_portfolio_analysis up to task.status = "running"; for a recurring
\* task _run_recurring_analysis before it: the test of end_time, with
\* cancel_task when it has passed, and the baseline
Enter(id) ==
    /\ sched.run[id] = "entered"
    /\ \/ sched' = [sched EXCEPT !.tasks[id] = "running",
                                 !.run[id] = "analysing"]
       \/ /\ id \in Recurring
          /\ sched' = [cancel_task(sched, id) EXCEPT !.run[id] = "idle"]
    /\ UNCHANGED <<walletVars, query, monitor>>

\* _run_portfolio_analysis from the query of the user to its end
Analyse(id) ==
    /\ sched.run[id] = "analysing"
    /\ LET after == IF id \in Recurring THEN "returned" ELSE "idle"
       IN  \/ /\ ~user_found(id)
              /\ sched' = [sched EXCEPT !.run[id] = after]
           \/ /\ user_found(id)
              /\ sched' = [sched EXCEPT !.tasks[id] = "completed",
                                        !.run[id] = after]
           \/ sched' = [sched EXCEPT !.tasks[id] = "failed",
                                     !.run[id] = after]
    /\ UNCHANGED <<walletVars, query, monitor>>

\* _run_recurring_analysis after the analysis: task.status = "pending"
Reset(id) ==
    /\ sched.run[id] = "returned"
    /\ sched' = [sched EXCEPT !.tasks[id] = "pending", !.run[id] = "idle"]
    /\ UNCHANGED <<walletVars, query, monitor>>

Enters == \E id \in TaskIds : Enter(id)

Analyses == \E id \in TaskIds : Analyse(id)

Resets == \E id \in TaskIds : Reset(id)

NextSched ==
    \/ Schedule
    \/ Cancel
    \/ Fire
    \/ Enters
    \/ Analyses
    \/ Resets

\* a worker that has taken a job runs it to its end
SpecSched ==
    Init /\ [][NextSched]_vars
         /\ \A id \in TaskIds :
               WF_vars(Enter(id)) /\ WF_vars(Analyse(id)) /\ WF_vars(Reset(id))

(***************************************************************************)
(* set_primary_wallet served for several requests at once, each on the     *)
(* session of its endpoint.  The UPDATE of lines 285-288 opens the         *)
(* request's write transaction, which lasts until its commit or the        *)
(* session.close() of the endpoint; the database admits one writer at a    *)
(* time (the engine of database.py is SQLite unless DATABASE_URL says      *)
(* otherwise; a server database locks the rows written).                   *)
(***************************************************************************)
\* the requests whose transaction holds writes it has not committed
Writers == {q \in Requests : procs[q].pc \in {"find", "set"}}

\* POST /api/wallet/set-primary arrives
ArriveSetPrimary(q) ==
    /\ procs[q].pc = "waiting"
    /\ last = Idle
    /\ q = "r2" => procs["r1"].pc # "waiting"
    /\ \E tu \in Members, wid \in WalletIds :
          procs' =
            [x \in Requests |->
               IF x = q
               THEN [Waiting EXCEPT
                        !.pc = "clear", !.tenant = tu[1], !.user = tu[2],
                        !.wid = wid,
                        !.overlapped = \E y \in Others(q) : InProgress(y)]
               ELSE IF InProgress(x)
               THEN [procs[x] EXCEPT !.overlapped = TRUE]
               ELSE procs[x]]
    /\ UNCHANGED <<now, nonces, nextNonce, wallets, pendingClear, consumed,
                   lostPrimary, last>>

\* alternative: the UPDATE is committed on its own
clear_committed(W, t, u) ==
    {IF w.tenant_id = t /\ w.user_id = u THEN [w EXCEPT !.is_primary = FALSE]
     ELSE w : w \in W}

\* lines 285-288: the committed table after the UPDATE, which is flushed in
\* the request's transaction and not committed
after_flush(W, t, u) == W

\* lines 285-288.  While another request is writing, the UPDATE waits (the
\* step is not taken) or gives up with "database is locked".
ClearFlags(q) ==
    LET r == procs[q]
    IN  /\ r.pc = "clear"
        /\ \/ /\ Writers = {}
              /\ procs' = [procs EXCEPT
                             ![q].pc = "find",
                             ![q].cleared = Ids(OfUser(wallets, r.tenant, r.user))]
              /\ wallets' = after_flush(wallets, r.tenant, r.user)
           \/ /\ Writers # {}
              /\ Finished(q, FALSE, "OperationalError")
              /\ UNCHANGED wallets
        /\ UNCHANGED <<now, nonces, nextNonce, pendingClear, consumed,
                       lostPrimary, last>>

\* lines 291-298: the wallet is looked up in what the request's session
\* sees; return False ends in the endpoint's 404 and session.close()
FindTarget(q) ==
    LET r == procs[q]
        target == find_wallet(View(wallets, r.cleared), r.tenant, r.user, r.wid)
    IN  /\ r.pc = "find"
        /\ IF target = {}
           THEN procs' = [procs EXCEPT ![q].pc = "done", ![q].ok = FALSE,
                                       ![q].cleared = {}]
           ELSE procs' = [procs EXCEPT ![q].pc = "set"]
        /\ UNCHANGED <<now, nonces, nextNonce, wallets, pendingClear, consumed,
                       lostPrimary, last>>

\* lines 300-301: the flag is set and the transaction committed
SetFlag(q) ==
    LET r == procs[q]
        V == View(wallets, r.cleared)
    IN  /\ r.pc = "set"
        /\ \E w \in find_wallet(V, r.tenant, r.user, r.wid) :
              wallets' = (V \ {w}) \cup {promote(w)}
        /\ Finished(q, TRUE, "")
        /\ UNCHANGED <<now, nonces, nextNonce, pendingClear, consumed,
                       lostPrimary, last>>

ServeSetPrimary ==
    /\ UNCHANGED aside
    /\ \E q \in Requests :
        \/ ArriveSetPrimary(q)
        \/ ClearFlags(q)
        \/ FindTarget(q)
        \/ SetFlag(q)

\* no set-primary request has arrived yet
Quiet == \A q \in Requests : procs[q].pc = "waiting"

\* the wallets are connected, one call at a time, before the set-primary
\* requests arrive
ChallengeQuiet == Quiet /\ RequestNonce

ConnectQuiet == Quiet /\ VerifyDefault

NextPrimary ==
    \/ Tick
    \/ ChallengeQuiet
    \/ ConnectQuiet
    \/ Return
    \/ ServeSetPrimary

SpecPrimary == Init /\ [][NextPrimary]_vars

(***************************************************************************)
(* Properties of the nonce and of verify                                   *)
(***************************************************************************)
\* a verify call is being made (the step from Idle to its result)
VerifyCall == last = Idle /\ last'.op = "verify"

\* the call presents a pair an earlier verify has succeeded with
Replays == VerifyCall /\ <<last'.addr, last'.nonce>> \in consumed

\* the call fails, touches no connection and hands out no credential
Refused ==
    /\ ~last'.ok
    /\ last'.token = <<>>
    /\ wallets' = wallets
    /\ pendingClear' = pendingClear

\* the signature the owner of address c makes over message m
OwnerSignature(c, m) == [signer |-> c[1], msg |-> m]

\* C1 as stated: once a verify has succeeded with (A, n), every later verify
\* presenting (A, n) fails with the nonce-already-used error, changes no
\* connection and issues no credential, whatever calls came in between and
\* whoever the caller is.
C1_ReplayAlwaysNonceUsed ==
    [][Replays => Refused /\ last'.err = "Nonce already used"]_vars

\* C1, amended: every such replay fails, changes no connection and issues no
\* credential; the error is user-not-found for a caller that does not exist,
\* nonce-already-used while the used row is still stored, and nonce-not-found
\* once a create_or_get_nonce for A has replaced the row.
C1_ReplayRefused ==
    [][Replays =>
         /\ Refused
         /\ last'.err =
              IF ~\E x \in UserDB :
                     x.id = last'.user /\ x.tenant_id = last'.tenant
              THEN "User not found"
              ELSE IF \E r \in nonces : /\ r.wallet_address = last'.addr
                                        /\ r.nonce = last'.nonce
              THEN "Nonce already used"
              ELSE "Nonce not found"]_vars

\* the replay of the very request that succeeded has been answered
C1_Replayed ==
    /\ last.op = "verify"
    /\ <<last.addr, last.nonce>> \in consumed
    /\ last.err = "Nonce already used"
    /\ last.sig.signer = last.addr[1]
    /\ last.sig.msg.nonce = last.nonce

\* rows of the table after the step that are new, or whose verified_at or
\* last_used_at differ from before
Touched ==
    {w \in wallets' :
        \A v \in wallets :
            v.id = w.id => \/ v.verified_at # w.verified_at
                           \/ v.last_used_at # w.last_used_at}

Rejections ==
    {"Invalid Ethereum address", "User not found", "Nonce not found",
     "Nonce already used", "Nonce expired", "Invalid signature"}

\* C2: a connection for address A is created, or its verified_at or
\* last_used_at updated, only by a successful verify that presented a nonce
\* whose stored row belongs to A, is unused and unexpired, with the signature
\* of A's owner over that row's message; a verify that is rejected leaves
\* the table of connections as it was.
C2_OnlyByValidVerify ==
    [][/\ \A w \in Touched :
            /\ VerifyCall
            /\ last'.ok
            /\ last'.addr = w.wallet_address
            /\ \E r \in nonces :
                  /\ r.wallet_address = w.wallet_address
                  /\ r.nonce = last'.nonce
                  /\ ~r.used
                  /\ r.expires_at >= now
                  /\ last'.sig = OwnerSignature(w.wallet_address, r.message)
       /\ VerifyCall /\ last'.err \in Rejections => wallets' = wallets]_vars

\* a second verify has updated the connection a first one created
C2_Reverified ==
    /\ last.op = "verify"
    /\ last.ok
    /\ \E w \in wallets : w.id = last.wid /\ w.verified_at > w.created_at

C5_UnknownUser ==
    [][(/\ VerifyCall
        /\ last'.addr # Invalid
        /\ ~\E x \in UserDB : x.id = last'.user /\ x.tenant_id = last'.tenant)
       => /\ Refused
          /\ last'.err = "User not found"
          /\ nonces' = nonces]_vars

\* an unknown user has presented a nonce that is stored, unused and
\* unexpired, with the owner's signature over its message
C5_ValidPairUnknownUser ==
    /\ last.op = "verify"
    /\ last.err = "User not found"
    /\ \E r \in nonces :
          /\ r.wallet_address = last.addr
          /\ r.nonce = last.nonce
          /\ ~r.used
          /\ r.expires_at >= now
          /\ last.sig = OwnerSignature(last.addr, r.message)

(***************************************************************************)
(* Properties of the connection registry                                   *)
(***************************************************************************)
\* a call of one of the operations that take a (tenant, user) is being made
ScopedCall ==
    /\ last = Idle
    /\ last'.op \in {"verify", "list", "set_primary", "disconnect"}

\* the rows of W that do not belong to (t, u)
Foreign(W, t, u) == {w \in W : w.tenant_id # t \/ w.user_id # u}

Primaries(W, t, u) == {w \in OfUser(W, t, u) : w.is_primary}

\* C6: a call of verify, get_user_wallets, set_primary_wallet or
\* disconnect_wallet for (tenant, user) returns only rows of that tenant and
\* user and leaves every other row as it was; set_primary_wallet and
\* disconnect_wallet return false for a wallet id owned by somebody else.
C6_TenantIsolation ==
    [][ScopedCall =>
         /\ \A i \in DOMAIN last'.ret :
               /\ last'.ret[i].tenant_id = last'.tenant
               /\ last'.ret[i].user_id = last'.user
         /\ Foreign(View(wallets', pendingClear'), last'.tenant, last'.user)
               = Foreign(SessionView, last'.tenant, last'.user)
         /\ (/\ last'.op \in {"set_primary", "disconnect"}
             /\ \E w \in Foreign(wallets, last'.tenant, last'.user) :
                   w.id = last'.wid)
            => ~last'.ok]_vars

\* set_primary_wallet or disconnect_wallet has been called with the id of a
\* wallet that is stored for another tenant or user
C6_ForeignWalletRefused ==
    /\ last.op \in {"set_primary", "disconnect"}
    /\ ~last.ok
    /\ \E w \in Foreign(wallets, last.tenant, last.user) : w.id = last.wid

\* C7: no (tenant, user) has more than one connection with is_primary = true,
\* in the committed table and in what the session sees.
C7_AtMostOnePrimary ==
    \A t \in Tenants, u \in UserIds :
        /\ Cardinality(Primaries(wallets, t, u)) <= 1
        /\ Cardinality(Primaries(SessionView, t, u)) <= 1

\* a user has connected a second wallet, which is not primary
C7_SecondWallet ==
    /\ last.op = "verify"
    /\ last.ok
    /\ Cardinality(OfUser(wallets, last.tenant, last.user)) = 2
    /\ Cardinality(Primaries(wallets, last.tenant, last.user)) = 1

\* C8 as stated: every (tenant, user) with a connection has exactly one
\* primary in every state a connect, set-primary or disconnect has led to,
\* except the state right after a disconnect that removed the primary.
\* Looked at in the states no set_primary_wallet that returned false has led
\* to.
C8_ExactlyOneUnlessJustDisconnected ==
    (/\ last.op \in {"verify", "set_primary", "disconnect"}
     /\ last.op = "verify" => last.ok
     /\ last.op = "disconnect" => ~last.ok
     /\ \A x \in lostPrimary : x[3] = "disconnect")
    => \A t \in Tenants, u \in UserIds :
          OfUser(wallets, t, u) # {} =>
              Cardinality(Primaries(wallets, t, u)) = 1

\* C8, amended: every (tenant, user) with a connection has exactly one
\* primary, or none when its primary was disconnected, or cleared by a
\* set_primary_wallet that returned false, and no set_primary_wallet has
\* succeeded for it since: the state without a primary lasts through the
\* calls that follow.
C8_ExactlyOneUnlessLost ==
    \A t \in Tenants, u \in UserIds :
        \A W \in {wallets, SessionView} :
            OfUser(W, t, u) # {} =>
                \/ Cardinality(Primaries(W, t, u)) = 1
                \/ /\ Primaries(W, t, u) = {}
                   /\ lostPrimary \cap Scope(t, u) # {}

\* a listing made after the disconnect of the primary shows a wallet and no
\* primary
C8_StillNoPrimary ==
    /\ last.op = "list"
    /\ last.ret # <<>>
    /\ \A i \in DOMAIN last.ret : ~last.ret[i].is_primary
    /\ lostPrimary \cap Scope(last.tenant, last.user)
          = {<<last.tenant, last.user, "disconnect">>}

\* C9 as stated: a set_primary_wallet that returns false leaves the
\* is_primary flags of the caller's connections as they were, and they stay
\* so when a later call on the same session commits.
C9_FalseLeavesFlags ==
    [][/\ (last = Idle /\ last'.op = "set_primary" /\ ~last'.ok)
          => wallets' = wallets
       /\ \A t \in Tenants, u \in UserIds :
            (/\ <<t, u, "set_primary">> \in lostPrimary
             /\ last = Idle
             /\ last'.op \in {"nonce", "verify", "list", "disconnect"})
            => \A w \in OfUser(wallets, t, u), v \in wallets' :
                  v.id = w.id => v.is_primary = w.is_primary]_vars

\* C10: after a set_primary_wallet that returns true the wallet named is the
\* only primary of the caller, nothing is left uncommitted, no row has been
\* added or removed and no field but is_primary has changed.
C10_SetPrimaryFrame ==
    [][(last = Idle /\ last'.op = "set_primary" /\ last'.ok) =>
         /\ {w.id : w \in Primaries(wallets', last'.tenant, last'.user)}
               = {last'.wid}
         /\ pendingClear' = {}
         /\ Ids(wallets') = Ids(wallets)
         /\ {[w EXCEPT !.is_primary = FALSE] : w \in wallets'}
               = {[w EXCEPT !.is_primary = FALSE] : w \in wallets}]_vars

\* the primary has been moved from a user's first wallet to its second
C10_Switched ==
    /\ last.op = "set_primary"
    /\ last.ok
    /\ \E w, v \in OfUser(wallets, last.tenant, last.user) :
          /\ w.id = last.wid
          /\ w.is_primary
          /\ v.created_at < w.created_at
          /\ ~v.is_primary

(***************************************************************************)
(* Properties of concurrent verify requests                                *)
(***************************************************************************)
SameRequest(q, x) ==
    /\ procs[q].tenant = procs[x].tenant
    /\ procs[q].user = procs[x].user
    /\ procs[q].addr = procs[x].addr
    /\ procs[q].nonce = procs[x].nonce
    /\ procs[q].sig = procs[x].sig

\* C3: when two verify requests with the same (address, nonce, signature)
\* were in progress at the same time and one of them has succeeded, the other
\* has failed with the nonce-already-used error.  Looked at while the nonce
\* row is still stored and has not expired.
C3_ExactlyOneSucceeds ==
    \A q \in Requests : \A x \in Others(q) :
        (/\ procs[q].pc = "done"
         /\ procs[x].pc = "done"
         /\ procs[q].overlapped
         /\ SameRequest(q, x)
         /\ procs[q].ok
         /\ \E r \in nonces : /\ r.wallet_address = procs[q].addr
                              /\ r.nonce = procs[q].nonce
                              /\ r.expires_at >= now)
        => ~procs[x].ok /\ procs[x].err = "Nonce already used"

\* C11: while set_primary_wallet requests are served, alone or two at a time
\* for different wallets of one user, the committed table never shows a user
\* that has wallets with no primary or with two.
C11_CommittedOnePrimary ==
    \A t \in Tenants, u \in UserIds :
        OfUser(wallets, t, u) # {} =>
            Cardinality(Primaries(wallets, t, u)) = 1

\* two requests for different wallets of one user were in progress together
\* and both have returned true
C11_BothServed ==
    /\ \A q \in Requests : procs[q].pc = "done" /\ procs[q].ok
    /\ procs["r1"].overlapped
    /\ procs["r1"].tenant = procs["r2"].tenant
    /\ procs["r1"].user = procs["r2"].user
    /\ procs["r1"].wid # procs["r2"].wid

\* a verify call succeeds and stores a row that was not there
Creates == VerifyCall /\ last'.ok /\ last'.wid \notin Ids(wallets)

\* C12: a verify that creates a connection makes it primary exactly when the
\* (tenant, user) had no connection at that moment: the first wallet of a
\* user is primary, one connected after it is not.
C12_PrimaryIffFirst ==
    [][Creates =>
         \A w \in wallets' :
            w.id = last'.wid =>
               /\ w.tenant_id = last'.tenant
               /\ w.user_id = last'.user
               /\ w.is_primary
                     = (\A v \in wallets : \/ v.tenant_id # last'.tenant
                                           \/ v.user_id # last'.user)]_vars

\* a user's second wallet has been connected as not primary, next to the
\* first one, which is
C12_SecondNotPrimary ==
    /\ last.op = "verify"
    /\ last.ok
    /\ \E w, v \in OfUser(wallets, last.tenant, last.user) :
          /\ w.id = last.wid
          /\ ~w.is_primary
          /\ w.created_at = now
          /\ v.created_at < w.created_at
          /\ v.is_primary

DisconnectCall == last = Idle /\ last'.op = "disconnect"

\* C13: a disconnect_wallet that returns true removes exactly the caller's
\* connection with the id named and leaves every other connection, as the
\* session sees them, as it was: no other wallet is promoted. One that
\* returns false changes nothing.
C13_DisconnectFrame ==
    [][DisconnectCall =>
         IF last'.ok
         THEN /\ \E w \in OfUser(SessionView, last'.tenant, last'.user) :
                    /\ w.id = last'.wid
                    /\ View(wallets', pendingClear') = SessionView \ {w}
              /\ pendingClear' = {}
         ELSE /\ wallets' = wallets
              /\ pendingClear' = pendingClear]_vars

\* the primary of a user has been disconnected and the wallet that remains
\* has not been promoted
C13_RemainingNotPromoted ==
    /\ last.op = "disconnect"
    /\ last.ok
    /\ <<last.tenant, last.user, "disconnect">> \in lostPrimary
    /\ OfUser(wallets, last.tenant, last.user) # {}
    /\ Primaries(wallets, last.tenant, last.user) = {}

\* the rows of W for one (tenant, user, address, chain_id)
Combination(W, t, u, c, chain) ==
    {w \in W : /\ w.tenant_id = t /\ w.user_id = u
               /\ w.wallet_address = c /\ w.chain_id = chain}

\* C14: no step leaves two connections with the same (tenant, user, address,
\* chain_id). A successful verify for a combination that is connected
\* already rewrites that row in place: verified_at, last_used_at and
\* wallet_type are set, label only when the request gives one, id and
\* is_primary and everything else stay, and no row is added. A successful
\* verify for a combination not yet connected, the same address on another
\* chain included, adds one row and changes no other.
C14_OnePerCombination ==
    [][/\ \A w, v \in wallets' :
             (/\ w.tenant_id = v.tenant_id /\ w.user_id = v.user_id
              /\ w.wallet_address = v.wallet_address
              /\ w.chain_id = v.chain_id) => w = v
       /\ (VerifyCall /\ last'.ok) =>
            LET p == last'.profile
                S == SessionView
                S2 == View(wallets', pendingClear')
                old == Combination(S, last'.tenant, last'.user, last'.addr,
                                   p.chain_id)
            IN  IF old # {}
                THEN \E e \in old :
                       S2 = (S \ {e}) \cup
                            {[e EXCEPT
                                !.verified_at = now, !.last_used_at = now,
                                !.wallet_type = p.wallet_type,
                                !.label = IF p.label \in {None, ""} THEN @
                                          ELSE p.label]}
                ELSE \E w \in S2 \ S :
                       /\ S2 = S \cup {w}
                       /\ w.id \notin Ids(S)
                       /\ w.chain_id = p.chain_id
                       /\ w.wallet_address = last'.addr]_vars

\* a connection made with a label has been verified again by a request
\* without one: the wallet type is the new one, the label, the id and
\* the primary flag are the old ones, and it is still the only row
C14_ReverifiedInPlace ==
    /\ last.op = "verify"
    /\ last.ok
    /\ last.profile = DefaultProfile
    /\ \E w \in wallets :
          /\ w.id = last.wid
          /\ w.label = "Cold"
          /\ w.wallet_type = "metamask"
          /\ w.is_primary
          /\ w.created_at < w.verified_at
          /\ OfUser(wallets, last.tenant, last.user) = {w}

\* one address is connected on two chains, as two rows
C14_TwoChains ==
    \E w, v \in wallets :
       /\ w.tenant_id = v.tenant_id /\ w.user_id = v.user_id
       /\ w.wallet_address = v.wallet_address
       /\ w.chain_id # v.chain_id

\* C15 as stated: a verify request on a session of its own that fails, in
\* the upsert or in the issuance of the credential after it, leaves no
\* connection created or updated: the committed connections are those
\* from before the request.
C15_AllOrNothing ==
    [][(VerifyCall /\ ~last'.ok /\ pendingClear = {}) =>
          wallets' = wallets]_vars

NonceCall == last = Idle /\ last'.op = "nonce" /\ last'.ok

\* the rows of address c that are neither used nor expired
Live(c) ==
    {r \in nonces : r.wallet_address = c /\ ~r.used /\ ~(r.expires_at < now)}

\* C16: create_or_get_nonce(A) hands back the stored challenge (same nonce,
\* message and expires_at) and leaves the store alone exactly when an unused,
\* unexpired record exists for A; otherwise the record of A, if any, is
\* replaced by a fresh one whose nonce no stored record has, and that one is
\* returned. So a request after a successful verify gets another nonce.
C16_ReuseIffLive ==
    [][NonceCall =>
         LET d == last'.ret[1]
         IN  IF Live(last'.addr) # {}
             THEN /\ \E r \in Live(last'.addr) :
                        d = [wallet_address |-> r.wallet_address,
                             nonce |-> r.nonce, expires_at |-> r.expires_at,
                             message |-> r.message]
                  /\ nonces' = nonces
             ELSE /\ d.nonce \notin {r.nonce : r \in nonces}
                  /\ d.wallet_address = last'.addr
                  /\ d.expires_at = now + NonceTTL
                  /\ nonces' =
                        {r \in nonces : r.wallet_address # last'.addr}
                        \cup {[wallet_address |-> d.wallet_address,
                               nonce |-> d.nonce, message |-> d.message,
                               expires_at |-> d.expires_at, used |-> FALSE]}]_vars

\* an address whose nonce a verify has consumed has asked again and has been
\* given another nonce
C16_FreshAfterVerify ==
    /\ last.op = "nonce"
    /\ last.ok
    /\ last.nonce = nextNonce - 1
    /\ \E n \in 1..MaxNonces : n # last.nonce /\ <<last.addr, n>> \in consumed
    /\ \A r \in nonces : r.wallet_address = last.addr => r.nonce = last.nonce

\* C17: in every state that sequences of create_or_get_nonce and verify calls
\* reach, an address has at most one nonce record that is unused and
\* unexpired.
C17_OneLiveNonce ==
    \A c \in {r.wallet_address : r \in nonces} : Cardinality(Live(c)) <= 1

\* the only record stored is the second challenge ever issued and is live;
\* it has replaced the first one, which had expired without being used
C17_ReplacedExpired ==
    /\ last.op = "nonce"
    /\ last.ok
    /\ consumed = {}
    /\ now > NonceTTL
    /\ \E r \in nonces :
          /\ nonces = {r}
          /\ r.nonce = 2
          /\ Live(r.wallet_address) = {r}

\* C18: the message of a nonce record is the one stored at creation: while
\* the record exists no step changes it, every create_or_get_nonce response
\* for the nonce carries exactly the message stored, and a verify succeeds
\* only with a signature made over exactly the stored message, and does not
\* turn the owner's signature over it down as invalid.
C18_StoredMessage ==
    [][/\ \A r \in nonces, r2 \in nonces' :
             r2.nonce = r.nonce => r2.message = r.message
       /\ NonceCall =>
             \E r \in nonces' : /\ r.nonce = last'.ret[1].nonce
                                /\ r.message = last'.ret[1].message
       /\ VerifyCall =>
             \A r \in nonces :
                (r.wallet_address = last'.addr /\ r.nonce = last'.nonce) =>
                   /\ last'.ok => last'.sig.msg = r.message
                   /\ last'.sig = OwnerSignature(last'.addr, r.message)
                         => last'.err # "Invalid signature"]_vars

\* a signature of the owner over the message of another challenge has been
\* turned down, the record presented being unused and unexpired
C18_OtherMessageRefused ==
    /\ last.op = "verify"
    /\ last.err = "Invalid signature"
    /\ last.sig.signer = last.addr[1]
    /\ \E r \in nonces :
          /\ r.wallet_address = last.addr
          /\ r.nonce = last.nonce
          /\ ~r.used
          /\ ~(r.expires_at < now)
          /\ last.sig.msg # r.message
          /\ last.sig.msg \in {x.message : x \in nonces}

\* a verify call of an existing (tenant, user) with a well-formed address
KnownUserCall ==
    /\ VerifyCall
    /\ last'.addr # Invalid
    /\ \E x \in UserDB : x.id = last'.user /\ x.tenant_id = last'.tenant

\* the records stored for the address and nonce the call presents
Presented == {r \in nonces : /\ r.wallet_address = last'.addr
                             /\ r.nonce = last'.nonce}

\* C19 as stated: for an existing (tenant, user) verify fails with "Nonce not
\* found" when no record has both the address and the nonce, with "Nonce
\* expired" when the expires_at of the matching record has passed, and with
\* "Nonce already used" when the matching record is used.
C19_AsStated ==
    [][KnownUserCall =>
         /\ Presented = {} => (~last'.ok /\ last'.err = "Nonce not found")
         /\ \A r \in Presented :
               /\ r.expires_at < now
                     => (~last'.ok /\ last'.err = "Nonce expired")
               /\ r.used => (~last'.ok /\ last'.err = "Nonce already used")]_vars

\* C19: for an existing (tenant, user) verify fails with "Nonce not found"
\* when no record has both the address and the nonce, with "Nonce already
\* used" when the matching record is used, expired or not, and with "Nonce
\* expired" when the matching record is unused and its expires_at has passed.
C19_UsedBeforeExpired ==
    [][KnownUserCall =>
         /\ Presented = {} => (~last'.ok /\ last'.err = "Nonce not found")
         /\ \A r \in Presented :
               /\ r.used => (~last'.ok /\ last'.err = "Nonce already used")
               /\ (~r.used /\ r.expires_at < now)
                     => (~last'.ok /\ last'.err = "Nonce expired")]_vars

\* a record that is used and has expired as well has been presented, and
\* the answer was that it is used
C19_UsedAndExpired ==
    /\ last.op = "verify"
    /\ last.err = "Nonce already used"
    /\ \E r \in nonces :
          /\ r.wallet_address = last.addr
          /\ r.nonce = last.nonce
          /\ r.used
          /\ r.expires_at < now

TokenCall == last = Idle /\ last'.op = "auth"

\* C20: verify_wallet_jwt never raises. A token signed with the server
\* secret, of type "wallet" and presented before its exp is answered with
\* its claims: the tenant_id, user_id, wallet_id, wallet_address and chain_id
\* of the connection generate_wallet_jwt made it for, and type "wallet". A
\* token past its exp, a malformed one, one signed with another key and
\* one of another type are answered None.
C20_AcceptsExactly ==
    [][TokenCall =>
         LET tok == last'.token[1]
             c == tok.payload
             good == /\ tok.key = "JWT_SECRET"
                     /\ c.type = "wallet"
                     /\ now < c.exp
             bad == \/ tok.key # "JWT_SECRET"
                    \/ c.type # "wallet"
                    \/ now > c.exp
         IN  /\ last'.err = ""
             /\ good =>
                  /\ last'.ret = <<c>>
                  /\ \E w \in wallets :
                        /\ c.tenant_id = w.tenant_id
                        /\ c.user_id = w.user_id
                        /\ c.wallet_id = w.id
                        /\ c.wallet_address = w.wallet_address
                        /\ c.chain_id = w.chain_id
             /\ bad => last'.ret = <<>>]_vars

\* a credential has been accepted more than a day after the first instant:
\* one issued then would have expired, this one was issued later
C20_AcceptedBeforeExpiry ==
    /\ last.op = "auth"
    /\ last.ok
    /\ now > JwtTTL
    /\ last.ret[1].type = "wallet"
    /\ last.ret[1].iat > 0
    /\ last.ret[1].exp > now

\* C21: whatever has happened to the nonce, the flags and the connection
\* since, a credential the API handed out is answered with its claims when
\* presented before its exp, and with None after it.
C21_OnlyExpiryInvalidates ==
    [][(TokenCall /\ last'.token[1] \in issued) =>
         LET c == last'.token[1].payload
         IN  /\ now < c.exp => (last'.ok /\ last'.ret = <<c>>)
             /\ now > c.exp => (~last'.ok /\ last'.ret = <<>>)]_vars

\* the credential of a connection that was the user's primary and has been
\* disconnected since is still accepted
C21_AcceptedAfterDisconnect ==
    /\ last.op = "auth"
    /\ last.ok
    /\ last.token[1] \in issued
    /\ last.wid \notin Ids(wallets)
    /\ <<last.tenant, last.user, "disconnect">> \in lostPrimary

ListCall == last = Idle /\ last'.op = "list"

\* C22: get_user_wallets(t, u) returns the connections of (t, u), each once
\* and no other row, a primary one before any that is not primary, and
\* otherwise in ascending order of creation time.
C22_PrimaryFirstThenCreation ==
    [][ListCall =>
         LET s == last'.ret
             R == {w \in SessionView : /\ w.tenant_id = last'.tenant
                                       /\ w.user_id = last'.user}
         IN  /\ {s[i] : i \in DOMAIN s} = R
             /\ Len(s) = Cardinality(R)
             /\ \A i, j \in DOMAIN s :
                   i < j =>
                      /\ s[j].is_primary => s[i].is_primary
                      /\ s[i].is_primary = s[j].is_primary
                            => s[i].created_at <= s[j].created_at]_vars

\* the listing starts with the primary although it was created after the
\* wallet listed second
C22_YoungerPrimaryFirst ==
    /\ last.op = "list"
    /\ Len(last.ret) = 2
    /\ last.ret[1].is_primary
    /\ ~last.ret[2].is_primary
    /\ last.ret[1].created_at > last.ret[2].created_at

\* C23: every address in a nonce record or a connection is in checksummed
\* form, a user has one connection per address however it was spelled, and
\* a verify of an existing user that presents an address in any spelling,
\* the nonce of the unused, unexpired record of that address and the
\* owner's signature over the stored message finds the record and consumes
\* it.
C23_CanonicalKeys ==
    [][/\ \A r \in nonces' : r.wallet_address[2] = "checksum"
       /\ \A w \in wallets' : w.wallet_address[2] = "checksum"
       /\ \A w, v \in wallets' :
             (/\ w.tenant_id = v.tenant_id /\ w.user_id = v.user_id
              /\ w.wallet_address[1] = v.wallet_address[1]) => w = v
       /\ \A x \in spelled' \ spelled :
             x.op = "verify" =>
                \E r \in nonces, r2 \in nonces' :
                   /\ r.wallet_address = <<x.raw[1], "checksum">>
                   /\ r.nonce = x.nonce
                   /\ ~r.used
                   /\ r2 = [r EXCEPT !.used = TRUE]
       /\ KnownUserCall =>
             \A r \in Presented :
                (/\ ~r.used
                 /\ ~(r.expires_at < now)
                 /\ last'.sig = OwnerSignature(last'.addr, r.message))
                => (last'.ok \/ last'.err = "IntegrityError")]_vars

\* a challenge asked for under one spelling of an address has been consumed
\* by a verify that wrote the address the other way
C23_FoundUnderOtherSpelling ==
    /\ last.op = "verify"
    /\ last.ok
    /\ \E a, b \in spelled :
          /\ a.op = "nonce"
          /\ b.op = "verify"
          /\ a.nonce = last.nonce
          /\ b.nonce = last.nonce
          /\ a.raw[1] = b.raw[1]
          /\ a.raw # b.raw

\* C24 as stated: when two verify requests that overlap have connected two
\* different addresses for one (tenant, user) that had no wallet, exactly
\* one of the two connections is primary.
C24_OnePrimaryAfterRace ==
    (/\ \A q \in Requests : procs[q].pc = "done" /\ procs[q].ok
     /\ procs["r1"].overlapped
     /\ procs["r1"].tenant = procs["r2"].tenant
     /\ procs["r1"].user = procs["r2"].user
     /\ procs["r1"].addr # procs["r2"].addr
     /\ {w.wallet_address :
            w \in OfUser(wallets, procs["r1"].tenant, procs["r1"].user)}
           = {procs["r1"].addr, procs["r2"].addr})
    => Cardinality(Primaries(wallets, procs["r1"].tenant, procs["r1"].user)) = 1

\* the signature of the call has been verified: its nonce is consumed
SignatureVerified ==
    /\ VerifyCall
    /\ \E r \in Presented : ~r.used /\ [r EXCEPT !.used = TRUE] \in nonces'

\* C26 as stated: a verify whose signature has been verified ends with the
\* connection stored, and a connection it creates has an id no stored
\* connection of any tenant or user has, also when another connection was
\* created at the same reading of the millisecond clock.
C26_FreshIdAlwaysStored ==
    [][SignatureVerified =>
         /\ last'.ok
         /\ \E w \in wallets' :
               /\ w.id = last'.wid
               /\ w.tenant_id = last'.tenant
               /\ w.user_id = last'.user
               /\ w.wallet_address = last'.addr
         /\ Cardinality(Ids(wallets')) = Cardinality(wallets')]_vars

\* C25: a challenge belongs to an address, not to a tenant or user: whoever
\* the existing (tenant, user) of the call is, a verify with the nonce of
\* the unused, unexpired record of the address and the owner's signature
\* over its message consumes it; and a verify with a pair of address and
\* nonce that a verify has consumed fails, whoever makes it.
C25_BoundToAddressOnly ==
    [][/\ KnownUserCall =>
             \A r \in Presented :
                (/\ ~r.used
                 /\ ~(r.expires_at < now)
                 /\ last'.sig = OwnerSignature(last'.addr, r.message))
                => [r EXCEPT !.used = TRUE] \in nonces'
       /\ (VerifyCall /\ <<last'.addr, last'.nonce>> \in consumed) =>
             /\ ~last'.ok
             /\ wallets' = wallets]_vars

\* the second user's verify with a nonce has failed: the first user had
\* consumed it to connect the address
C25_SpentByAnotherUser ==
    /\ last.op = "verify"
    /\ ~last.ok
    /\ last.err = "Nonce already used"
    /\ <<last.addr, last.nonce>> \in consumed
    /\ <<last.tenant, last.user>> = <<"t2", "u2">>
    /\ OfUser(wallets, "t2", "u2") = {}
    /\ \E w \in OfUser(wallets, "t1", "u1") : w.wallet_address = last.addr

\* the last exception caught by the query in progress
Caught1(q) == q.errors[Len(q.errors)]

\* C27 as stated: query_agent calls the agent at most 3 times for a request;
\* it waits and tries again only after a quota or rate-limit error, 2 and
\* then 4 seconds; any other error is raised at once; a quota error on the
\* third attempt raises the high-demand error; and every request ends.
C27_BoundedRetries ==
    /\ [][query'.pc # "idle" =>
            /\ query'.calls <= max_retries + 1
            /\ query'.waits \in {<<>>, <<2>>, <<2, 4>>}
            /\ Len(query'.errors) > Len(query.errors) =>
                  LET e == Caught1(query')
                  IN  /\ query'.pc = "wait" => e.kind = "quota"
                      /\ e.kind # "quota" =>
                            /\ query'.pc = "raised"
                            /\ query'.result # "high demand"
                            /\ query'.waits = query.waits
                      /\ (e.kind = "quota" /\ query.retry_count = max_retries)
                            => (/\ query'.pc = "raised"
                                /\ query'.result = "high demand")]_vars
    /\ (query.pc = "try") ~> (query.pc \in {"returned", "raised"})

\* C28: at most one background monitoring loop is running at any time, for
\* every interleaving of the start and stop requests with the start-up and
\* the sleep of the loop; and after a stop request with no later start, a
\* loop exits after its current sleep.
C28_OneLoopStopsOnRequest ==
    /\ [](Cardinality(Running(monitor)) <= 1)
    /\ \A i \in 1..MaxCalls :
          (monitor.stopped /\ At(monitor, i, "sleeping"))
             ~> (~monitor.stopped \/ At(monitor, i, "exited"))

\* C29: once the job of a one-time portfolio-analysis task has fired and
\* set the status of the task to "running", the status eventually becomes
\* "completed" or "failed".
C29_RunningEnds ==
    \A id \in OneTime :
       (sched.tasks[id] = "running")
          ~> (sched.tasks[id] \in {"completed", "failed"})

\* a call of cancel_task from outside the scheduler
CancelCall == sched'.calls = sched.calls + 1

\* C30: cancel_task(id) returns True and sets the status to "cancelled"
\* only when a job with that id is registered, otherwise it returns False
\* and leaves the status unchanged; and once it has returned True the
\* status of the task is "cancelled" in every later state, also when a run
\* of the task was in progress.
C30_CancellationFinal ==
    /\ [][CancelCall =>
            /\ sched'.returned = (sched'.asked \in sched.jobs)
            /\ sched'.returned =>
                  sched'.tasks[sched'.asked] = "cancelled"
            /\ ~sched'.returned => sched'.tasks = sched.tasks]_vars
    /\ [](\A id \in sched.cancelled : sched.tasks[id] = "cancelled")
====
